---- MODULE Spec2Model ----
(***************************************************************************)
(* A model of the JACK VU meter (src/src/main.rs).                         *)
(*                                                                         *)
(* Three threads share the program: the JACK audio callback                *)
(* (ProcessHandlerContext::process), the frame clock thread spawned in     *)
(* main, and the event loop of main.  The audio callback and the event     *)
(* loop share the level vector `vu` behind a mutex.                        *)
(*                                                                         *)
(* f32 values are modelled exactly.  A level is an integer number of       *)
(* units of 2^-24 (every such number up to 2^24 is an f32); a general f32  *)
(* value is a record [neg, int, frac] standing for                         *)
(* (-1)^neg * (int + frac / 2^24), and every arithmetic result is rounded  *)
(* to 24 significant bits, ties to even, as IEEE-754 single precision.     *)
(***************************************************************************)
EXTENDS Integers, Sequences, FiniteSets, TLC

----------------------------------------------------------------------------
(* f32 arithmetic                                                          *)

\* 1f32 in level units of 2^-24.
One == 16777216

\* 2^12, used to split a 24-bit factor so that products stay in 32 bits.
Half12 == 64 * 64

\* The f32 literals of the event loop, in units of 2^-24.
F0_7 == 11744051
F0_9 == 15099494
F0_25 == 4194304
F0_5 == 8388608
F0_83 == 13925089
F0_96 == 16106127

Abs(n) == IF n < 0 THEN -n ELSE n

\* Rust's integer division truncates toward zero.
TruncDiv(a, b) == IF (a < 0) = (b < 0) THEN Abs(a) \div Abs(b) ELSE -(Abs(a) \div Abs(b))

RECURSIVE BitLen(_)
BitLen(n) == IF n = 0 THEN 0 ELSE 1 + BitLen(n \div 2)

RECURSIVE Pow2(_)
Pow2(n) == IF n = 0 THEN 1 ELSE 2 * Pow2(n - 1)

FZero == [neg |-> FALSE, int |-> 0, frac |-> 0]

\* Round the exact magnitude int + frac/2^24 to 24 significant bits, ties to
\* even.  A magnitude below 1 is a multiple of 2^-24 below 2^24 units: exact.
RoundF32(v) ==
    IF v.int = 0 THEN v
    ELSE LET u == Pow2(BitLen(v.int))
             q == v.frac \div u
             r == v.frac % u
             up == (2 * r > u) \/ (2 * r = u /\ q % 2 = 1)
             f == (IF up THEN q + 1 ELSE q) * u
         IN  IF f = One THEN [neg |-> v.neg, int |-> v.int + 1, frac |-> 0]
             ELSE [neg |-> v.neg, int |-> v.int, frac |-> f]

\* `a as f32 * k` for an i16 a and an f32 k of |k| units: the exact product,
\* rounded.
MulF32(a, k) ==
    LET A == Abs(a)
        K == Abs(k)
        lo == A * (K % Half12)
        s == (A * (K \div Half12)) + (lo \div Half12)
    IN  RoundF32([neg |-> (a < 0) # (k < 0),
                  int |-> s \div Half12,
                  frac |-> ((s % Half12) * Half12) + (lo % Half12)])

\* Whether the magnitude of v is at least that of w.
MagGeq(v, w) == v.int > w.int \/ (v.int = w.int /\ v.frac >= w.frac)

\* f32 addition: the exact sum, rounded.
AddF32(v, w) ==
    IF v.neg = w.neg
    THEN LET f == v.frac + w.frac
         IN  RoundF32([neg |-> v.neg,
                       int |-> v.int + w.int + (f \div One),
                       frac |-> f % One])
    ELSE LET big == IF MagGeq(v, w) THEN v ELSE w
             small == IF MagGeq(v, w) THEN w ELSE v
             borrow == IF big.frac < small.frac THEN 1 ELSE 0
             d == [neg |-> big.neg,
                   int |-> big.int - small.int - borrow,
                   frac |-> (big.frac + (borrow * One)) - small.frac]
         IN  IF d.int = 0 /\ d.frac = 0 THEN FZero ELSE RoundF32(d)

\* `v as i16`: truncation toward zero, saturating.
AsI16(v) ==
    LET t == IF v.neg THEN -v.int ELSE v.int
    IN  IF t > 32767 THEN 32767 ELSE IF t < -32768 THEN -32768 ELSE t

\* `w as i16` for a u16 w: the same 16 bits.
U16AsI16(w) == IF w >= 32768 THEN w - 65536 ELSE w

----------------------------------------------------------------------------
(* The pure functions of main.rs                                           *)

\* fn interp_f(a: i16, b: i16, pos: f32) -> f32; pos in units of 2^-24.
\* 1f32 - pos is exact for the positions of the model (multiples of 2^-24).
interp_f(a, b, pos) == AddF32(MulF32(a, One - pos), MulF32(b, pos))

\* fn interp_i(a: i16, b: i16, pos: usize, max_pos: usize) -> i16
interp_i(a, b, pos, max_pos) == TruncDiv((a * (max_pos - pos)) + (b * pos), max_pos)

\* rect with the width and height taken as the differences x1 - x0, y1 - y0.
rectExclusive(x0, x1, y0, y1) ==
    IF x1 >= x0 /\ y1 >= y0
    THEN << [x |-> x0, y |-> y0, width |-> x1 - x0, height |-> y1 - y0] >>
    ELSE << >>

\* fn rect(x0, x1, y0, y1) -> Option<xcb::Rectangle>: the empty sequence is
\* None, a one-element sequence is Some (flat_map concatenates them).
rect(x0, x1, y0, y1) ==
    IF x1 >= x0 /\ y1 >= y0
    THEN << [x |-> x0, y |-> y0, width |-> x1 - x0 + 1, height |-> y1 - y0 + 1] >>
    ELSE << >>

----------------------------------------------------------------------------
(* The frame: lines 143-202 of the EXPOSE branch                           *)

\* Ladder with the 0.7 and 0.9 lines taken from y.1 instead of y.1 + 1, the
\* way the grid computes them.
LadderFromGridHeight(level, y) ==
    LET yp == AsI16(interp_f(y[2] + 1, y[1], level))
    IN  IF level < F0_7
        THEN << y[1], yp, yp, yp, y[2] + 1 >>
        ELSE LET ym1 == AsI16(interp_f(y[2], y[1], F0_7))
             IN  IF level < F0_9
                 THEN << y[1], yp, yp, ym1, y[2] + 1 >>
                 ELSE LET ym2 == AsI16(interp_f(y[2], y[1], F0_9))
                      IN  << y[1], yp, ym2, ym1, y[2] + 1 >>

\* The five-point ladder of one channel (lines 154-165); y is the pair
\* (y.0, y.1) = (0, win_h as i16 - 1).
Ladder(level, y) ==
    LET yp == AsI16(interp_f(y[2] + 1, y[1], level))
    IN  IF level < F0_7
        THEN << y[1], yp, yp, yp, y[2] + 1 >>
        ELSE LET ym1 == AsI16(interp_f(y[2] + 1, y[1], F0_7))
             IN  IF level < F0_9
                 THEN << y[1], yp, yp, ym1, y[2] + 1 >>
                 ELSE LET ym2 == AsI16(interp_f(y[2] + 1, y[1], F0_9))
                      IN  << y[1], yp, ym2, ym1, y[2] + 1 >>

\* `locations` (lines 149-168): one (x0, x1, ladder) per channel; the
\* channel index i of the code is k - 1.
Locations(levels, x, y) ==
    [k \in 1..Len(levels) |->
        [x0 |-> interp_i(x[1], x[2], k - 1, Len(levels)),
         x1 |-> interp_i(x[1], x[2], k, Len(levels)),
         y  |-> Ladder(levels[k], y)]]

\* The rectangles of band i (0..3) over all channels, in channel order
\* (lines 171-174): flat_map of rect(x0, x1, y[i], y[i+1]-1).
RECURSIVE BandRects(_, _, _)
BandRects(locs, i, k) ==
    IF k > Len(locs) THEN << >>
    ELSE rect(locs[k].x0, locs[k].x1, locs[k].y[i + 1], locs[k].y[i + 2] - 1)
         \o BandRects(locs, i, k + 1)

\* The graphics contexts of the four bands, in the order of line 170.
BandGc == << "gc_bg", "gc_meter_high", "gc_meter_med", "gc_meter_low" >>

\* Lines 170-178: one poly_fill_rectangle per band that has rectangles.
RECURSIVE FillCalls(_, _)
FillCalls(locs, i) ==
    IF i > 3 THEN << >>
    ELSE LET r == BandRects(locs, i, 1)
         IN  (IF r # << >>
              THEN << [op |-> "poly_fill_rectangle", gc |-> BandGc[i + 1], items |-> r] >>
              ELSE << >>)
             \o FillCalls(locs, i + 1)

Segment(x1, y1, x2, y2) == [x1 |-> x1, y1 |-> y1, x2 |-> x2, y2 |-> y2]

\* The grid with the lines placed from y.1 + 1, the height the bars use.
GridCallsFromBarHeight(x, y) ==
    LET yb == << y[1], y[2] + 1 >>
        at(pos) == AsI16(interp_f(yb[2], yb[1], pos))
    IN  << [op |-> "poly_segment", gc |-> "gc_grid_low",
            items |-> << Segment(x[1], at(F0_25), x[2], at(F0_25)),
                         Segment(x[1], at(F0_5), x[2], at(F0_5)) >>],
           [op |-> "poly_segment", gc |-> "gc_grid_med1",
            items |-> << Segment(x[1], at(F0_7), x[2], at(F0_7)),
                         Segment(x[1], at(F0_83), x[2], at(F0_83)) >>],
           [op |-> "poly_segment", gc |-> "gc_grid_med2",
            items |-> << Segment(x[1], at(F0_9), x[2], at(F0_9)) >>],
           [op |-> "poly_segment", gc |-> "gc_grid_high",
            items |-> << Segment(x[1], at(F0_96), x[2], at(F0_96)) >>] >>

\* Lines 181-200: the grid.
GridCalls(x, y) ==
    LET y1 == AsI16(interp_f(y[2], y[1], F0_25))
        y2 == AsI16(interp_f(y[2], y[1], F0_5))
        y3 == AsI16(interp_f(y[2], y[1], F0_7))
        y4 == AsI16(interp_f(y[2], y[1], F0_83))
        y5 == AsI16(interp_f(y[2], y[1], F0_9))
        y6 == AsI16(interp_f(y[2], y[1], F0_96))
    IN  << [op |-> "poly_segment", gc |-> "gc_grid_low",
            items |-> << Segment(x[1], y1, x[2], y1), Segment(x[1], y2, x[2], y2) >>],
           [op |-> "poly_segment", gc |-> "gc_grid_med1",
            items |-> << Segment(x[1], y3, x[2], y3), Segment(x[1], y4, x[2], y4) >>],
           [op |-> "poly_segment", gc |-> "gc_grid_med2",
            items |-> << Segment(x[1], y5, x[2], y5) >>],
           [op |-> "poly_segment", gc |-> "gc_grid_high",
            items |-> << Segment(x[1], y6, x[2], y6) >>] >>

Flush == [op |-> "flush", gc |-> "", items |-> << >>]

\* The requests of a frame with the grid issued before the bars.
DrawCallsGridFirst(levels, x, y) ==
    GridCalls(x, y) \o FillCalls(Locations(levels, x, y), 0) \o << Flush >>

\* Every request the EXPOSE branch issues after the snapshot (lines 143-202).
DrawCalls(levels, x, y) ==
    FillCalls(Locations(levels, x, y), 0) \o GridCalls(x, y) \o << Flush >>

----------------------------------------------------------------------------
(* The audio callback: ProcessHandlerContext::process, lines 289-296       *)

\* |s| for an f32 sample in level units.
SampleAbs(s) == IF s < 0 THEN -s ELSE s

\* f32::max of two non-NaN values.
F32Max(a, b) == IF a >= b THEN a ELSE b

\* Iterator::max_by over the samples of one block, folded left to right
\* (line 292); of two equal elements max_by keeps the later one.
RECURSIVE MaxBy(_, _, _)
MaxBy(block, k, acc) ==
    IF k > Len(block) THEN acc
    ELSE MaxBy(block, k + 1, IF SampleAbs(block[k]) >= acc THEN SampleAbs(block[k]) ELSE acc)

\* max_of_chan without the map to the absolute value.
RECURSIVE MaxByRaw(_, _, _)
MaxByRaw(block, k, acc) ==
    IF k > Len(block) THEN acc
    ELSE MaxByRaw(block, k + 1, IF block[k] >= acc THEN block[k] ELSE acc)

MaxOfChanNoAbs(block) == MaxByRaw(block, 2, block[1])

\* max_of_chan (line 292): the block is never empty.
MaxOfChan(block) == MaxBy(block, 2, SampleAbs(block[1]))

\* Line 293 storing the block's peak instead of the running maximum.
MergeCellAssign(cell, peak, isTracked) == [val |-> peak, src |-> isTracked]

\* Line 293 on one cell of the vector.  A cell carries its value and, as
\* provenance, whether the peak of the tracked block has been merged into it.
MergeCell(cell, peak, isTracked) ==
    [val |-> F32Max(cell.val, peak), src |-> cell.src \/ isTracked]

\* Line 130 leaving the cell as it is.
ZeroCellKeep(cell) == cell

\* Line 130 on one cell: `*i = 0f32`.
ZeroCell(cell) == [val |-> 0, src |-> FALSE]

\* Line 276: vu.resize(num, 0f32).
NewVu(num) == [c \in 1..num |-> [val |-> 0, src |-> FALSE]]

\* The values of a vector of cells.
Val(v) == [c \in 1..Len(v) |-> v[c].val]

----------------------------------------------------------------------------
(* Inputs and bounds                                                       *)

\* The default of --channels (cli_args).
NumChannels == 2

\* The channel counts the program is started with.
ChannelCounts == {1, NumChannels}

\* Samples per block delivered to process.
BlockLen == 2

\* The f32 samples a block is made of, in level units: 0, 0.5 and -0.95.
Samples == {0, 8388608, -15938355}

\* Every block one port can deliver.
Blocks == [1..BlockLen -> Samples]

\* Synthetic Expose events in the event stream and not yet received.
MaxQueue == 2

\* The window as created (lines 76-77).
InitW == 108
InitH == 204

\* The sizes the X server reports in ConfigureNotify.
WinSizes == {<<100, 200>>}

\* X11 event codes matched by the event loop and the SendEvent bit it masks.
EXPOSE == 12
KEY_PRESS == 2
CONFIGURE_NOTIFY == 22
MAP_NOTIFY == 19
SEND_EVENT == 128

----------------------------------------------------------------------------
(* State                                                                   *)

VARIABLES
    vu,         \* the contents of Arc<Mutex<Vec<f32>>>: a sequence of cells
    mutex,      \* who holds the mutex: "free", "audio" or "render"; "poisoned" once a holder panicked
    apc,        \* audio callback: "idle", "lock", "scan", "ret", "panic"
    ai,         \* the port index of for_each in process (1-based)
    rpc,        \* event loop: "wait", "lock", "clone", "zero", "unlock", "draw", "exit", "panic", "abort"
    ri,         \* the index of iter_mut in the zeroing loop (1-based)
    ch,         \* the snapshot `ch` of the last Expose handled
    win_w,
    win_h,
    pending,    \* synthetic Expose events sent and not yet received
    event,      \* the last event wait_for_event returned
    locations,  \* `locations` of the frame drawn for `event` (empty if none was)
    calls,      \* the requests issued while handling `event`
    \* history variables
    seenMax,    \* per channel, the largest |sample| processed since the last snapshot
    tracked,    \* whether the block being processed is the tracked one
    written,    \* per channel, whether the tracked block's peak has been merged
    reported,   \* per channel, in how many finished snapshots it was (capped at 2)
    quiet,      \* a snapshot was taken and the callback has not run since
    prev,       \* "syn"/"gen" when the event before this Expose was an Expose, else "none"
    same,       \* this snapshot equals that of the directly preceding Expose
    lastResize  \* the size of the most recent ConfigureNotify, or the initial size

prog == << vu, mutex, apc, ai, rpc, ri, ch, win_w, win_h, pending, event, locations, calls >>
hist == << seenMax, tracked, written, reported, quiet, prev, same, lastResize >>
vars == << prog, hist >>

audioVars == << apc, ai, tracked >>
renderVars == << rpc, ri, ch, win_w, win_h, event, locations, calls, prev, same, lastResize >>

NoEvent == [response_type |-> 0, width |-> 0, height |-> 0]

\* xcb::ExposeEvent::new(win, 0, 0, 0, 0, 0) as delivered by send_event
\* (lines 108-109): the server sets the SendEvent bit.
SyntheticExpose == [response_type |-> EXPOSE + SEND_EVENT, width |-> 0, height |-> 0]

\* The events the X server itself generates for the window's event mask.
XEvents ==
    { [response_type |-> EXPOSE, width |-> 0, height |-> 0],
      [response_type |-> KEY_PRESS, width |-> 0, height |-> 0],
      [response_type |-> MAP_NOTIFY, width |-> 0, height |-> 0] }
    \cup { [response_type |-> CONFIGURE_NOTIFY, width |-> s[1], height |-> s[2]] : s \in WinSizes }

\* Line 124: event.response_type() & !0x80.
R(e) == e.response_type % SEND_EVENT

IsSynthetic(e) == e.response_type >= SEND_EVENT

Chans == 1..Len(vu)

SetMax(S) == CHOOSE m \in S : \A n \in S : n <= m

\* The state once main has set everything up for num channels (lines 8-117).
Started(num) ==
    /\ vu = NewVu(num)
    /\ mutex = "free"
    /\ apc = "idle" /\ ai = 0
    /\ rpc = "wait" /\ ri = 0
    /\ ch = vu
    /\ win_w = InitW /\ win_h = InitH
    /\ pending = 0
    /\ event = NoEvent
    /\ locations = << >>
    /\ calls = << >>
    /\ seenMax = Val(vu)
    /\ tracked = FALSE
    /\ written = [c \in 1..Len(vu) |-> FALSE]
    /\ reported = [c \in 1..Len(vu) |-> 0]
    /\ quiet = FALSE
    /\ prev = "none"
    /\ same = FALSE
    /\ lastResize = << InitW, InitH >>

Init == \E n \in ChannelCounts : Started(n)

\* main returns when the event loop breaks, or panics, or the process is
\* aborted: the process and its threads end.
Running == rpc \notin {"exit", "panic", "abort"}

----------------------------------------------------------------------------
(* The audio callback thread                                               *)

\* JACK invokes process for the next block.  The history variables start
\* tracking this block when no cell carries an older tracked peak.
AudioStart ==
    /\ Running
    /\ apc = "idle"
    /\ apc' = "lock"
    /\ \E t \in BOOLEAN :
        /\ t => \A c \in Chans : ~vu[c].src /\ ~ch[c].src
        /\ tracked' = t
        /\ written' = IF t THEN [c \in Chans |-> FALSE] ELSE written
        /\ reported' = IF t THEN [c \in Chans |-> 0] ELSE reported
    /\ UNCHANGED << vu, mutex, ai, renderVars, pending, seenMax, quiet >>

\* Line 290: self.vu.lock().unwrap() returns once the mutex is free.
AudioLock ==
    /\ Running
    /\ apc = "lock"
    /\ mutex = "free"
    /\ mutex' = "audio"
    /\ apc' = "scan"
    /\ ai' = 1
    /\ quiet' = FALSE
    /\ UNCHANGED << vu, tracked, renderVars, pending, seenMax, written, reported >>

\* Lines 291-294: one iteration of for_each, on port ai with its block.
AudioChannel ==
    /\ Running
    /\ apc = "scan"
    /\ \E block \in Blocks :
        /\ vu' = [vu EXCEPT ![ai] = MergeCell(@, MaxOfChan(block), tracked)]
        /\ seenMax' = [seenMax EXCEPT
                         ![ai] = SetMax({SampleAbs(block[k]) : k \in 1..Len(block)} \cup {@})]
    /\ written' = IF tracked THEN [written EXCEPT ![ai] = TRUE] ELSE written
    /\ IF ai < Len(vu)
       THEN ai' = ai + 1 /\ apc' = "scan"
       ELSE ai' = 0 /\ apc' = "ret"
    /\ UNCHANGED << mutex, tracked, renderVars, pending, reported, quiet >>

\* process returning with the guard leaked, so that the mutex stays locked.
AudioReturnKeepsGuard ==
    /\ Running
    /\ apc = "ret"
    /\ apc' = "idle"
    /\ tracked' = FALSE
    /\ UNCHANGED << vu, mutex, ai, renderVars, pending, seenMax, written, reported, quiet >>

\* Lines 295-296: the guard is dropped as process returns.
AudioReturn ==
    /\ Running
    /\ apc = "ret"
    /\ mutex' = "free"
    /\ apc' = "idle"
    /\ tracked' = FALSE
    /\ UNCHANGED << vu, ai, renderVars, pending, seenMax, written, reported, quiet >>

\* A sample that is not a number, as a value no finite sample of the model
\* has.
NaN == 64 * One

\* Every block a port can deliver when its samples may be NaN.
AnyBlocks == [1..BlockLen -> Samples \cup {NaN}]

\* Line 292 panics: a.partial_cmp(b) is None when max_by compares a NaN, and
\* max_by compares every element of a block of two or more samples; of an
\* empty block max_by itself returns None.
MaxByPanics(block) ==
    \/ Len(block) = 0
    \/ Len(block) >= 2 /\ \E k \in 1..Len(block) : block[k] = NaN

\* Line 292 on port ai panics.  The unwinding leaves process and drops the
\* guard taken in line 290, which poisons the mutex; the channels before ai
\* keep the peaks already merged.
AudioPanic ==
    /\ Running
    /\ apc = "scan"
    /\ \E block \in AnyBlocks : MaxByPanics(block)
    /\ mutex' = "poisoned"
    /\ apc' = "panic"
    /\ tracked' = FALSE
    /\ UNCHANGED << vu, ai, renderVars, pending, seenMax, written, reported, quiet >>

\* Line 290 on a poisoned mutex: lock() returns Err and unwrap panics.
AudioPoisoned ==
    /\ Running
    /\ apc = "lock"
    /\ mutex = "poisoned"
    /\ apc' = "panic"
    /\ tracked' = FALSE
    /\ UNCHANGED << vu, mutex, ai, renderVars, pending, seenMax, written, reported, quiet >>

\* JACK invokes process again after an invocation that panicked.
AudioRestart ==
    /\ Running
    /\ apc = "panic"
    /\ apc' = "lock"
    /\ UNCHANGED << vu, mutex, ai, tracked, renderVars, pending, seenMax, written, reported, quiet >>

\* The panic of process reaches the frames of the JACK library that called
\* it and the process is aborted.
ProcessAbort ==
    /\ Running
    /\ apc = "panic"
    /\ rpc' = "abort"
    /\ UNCHANGED << vu, mutex, audioVars, ri, ch, win_w, win_h, pending, event, locations, calls, hist >>

----------------------------------------------------------------------------
(* The frame clock thread: lines 105-114                                   *)

\* The frame clock sleeping without sending its Expose.
FrameClockNoSend ==
    /\ Running
    /\ UNCHANGED vars

\* The frame clock clearing the shared levels as it sends its Expose.
FrameClockResets ==
    /\ Running
    /\ pending < MaxQueue
    /\ pending' = pending + 1
    /\ vu' = [c \in Chans |-> ZeroCell(vu[c])]
    /\ UNCHANGED << mutex, audioVars, renderVars, seenMax, written, reported, quiet >>

\* Lines 107-113: send_event, flush, sleep.
FrameClock ==
    /\ Running
    /\ pending < MaxQueue
    /\ pending' = pending + 1
    /\ UNCHANGED << vu, mutex, audioVars, renderVars, seenMax, written, reported, quiet >>

----------------------------------------------------------------------------
(* The event loop of main: lines 119-223                                   *)

\* Line 120: wait_for_event returns e, an event of the X server or the oldest
\* synthetic Expose still in the stream.
WaitForEvent(e) ==
    /\ rpc = "wait"
    /\ \/ e \in XEvents /\ pending' = pending
       \/ e = SyntheticExpose /\ pending > 0 /\ pending' = pending - 1
    /\ event' = e
    /\ locations' = << >>
    /\ calls' = << >>

\* Line 126: the EXPOSE branch is entered.
Expose(e) ==
    /\ WaitForEvent(e)
    /\ R(e) = EXPOSE
    /\ rpc' = "lock"
    /\ prev' = IF R(event) = EXPOSE
               THEN (IF IsSynthetic(event) THEN "syn" ELSE "gen")
               ELSE "none"
    /\ UNCHANGED << vu, mutex, audioVars, ri, ch, win_w, win_h, same, lastResize,
                    seenMax, written, reported, quiet >>

\* The event loop entering its block without waiting for the mutex.
RenderLockNoWait ==
    /\ rpc = "lock"
    /\ mutex' = "render"
    /\ rpc' = "clone"
    /\ UNCHANGED << vu, audioVars, ri, ch, win_w, win_h, pending, event, locations, calls, hist >>

\* Line 128: vu.lock().unwrap() returns once the mutex is free.
RenderLock ==
    /\ rpc = "lock"
    /\ mutex = "free"
    /\ mutex' = "render"
    /\ rpc' = "clone"
    /\ UNCHANGED << vu, audioVars, ri, ch, win_w, win_h, pending, event, locations, calls, hist >>

\* Line 128 taking the vector out of a poisoned mutex and going on.
RenderPoisonedRecovers ==
    /\ rpc = "lock"
    /\ mutex = "poisoned"
    /\ mutex' = "render"
    /\ rpc' = "clone"
    /\ UNCHANGED << vu, audioVars, ri, ch, win_w, win_h, pending, event, locations, calls, hist >>

\* Line 128 on a poisoned mutex: lock() returns Err and unwrap panics in
\* the main thread, which ends the process.
RenderPoisoned ==
    /\ rpc = "lock"
    /\ mutex = "poisoned"
    /\ rpc' = "panic"
    /\ UNCHANGED << vu, mutex, audioVars, ri, ch, win_w, win_h, pending, event, locations, calls, hist >>

\* The clone with the guard dropped right after it, so that the zeroing runs
\* outside the critical section.
RenderCloneThenUnlock ==
    /\ rpc = "clone"
    /\ ch' = vu
    /\ same' = (prev # "none" /\ Val(vu) = Val(ch))
    /\ rpc' = "zero"
    /\ ri' = 1
    /\ mutex' = "free"
    /\ UNCHANGED << vu, audioVars, win_w, win_h, pending, event, locations, calls,
                    seenMax, written, reported, quiet, prev, lastResize >>

\* Line 129: let copy = src.clone().
RenderClone ==
    /\ rpc = "clone"
    /\ ch' = vu
    /\ same' = (prev # "none" /\ Val(vu) = Val(ch))
    /\ rpc' = "zero"
    /\ ri' = 1
    /\ UNCHANGED << vu, mutex, audioVars, win_w, win_h, pending, event, locations, calls,
                    seenMax, written, reported, quiet, prev, lastResize >>

\* Line 130: one iteration of src.iter_mut().for_each(|i| *i = 0f32).
RenderZero ==
    /\ rpc = "zero"
    /\ vu' = [vu EXCEPT ![ri] = ZeroCell(@)]
    /\ IF ri < Len(vu)
       THEN ri' = ri + 1 /\ rpc' = "zero"
       ELSE ri' = 0 /\ rpc' = "unlock"
    /\ UNCHANGED << mutex, audioVars, ch, win_w, win_h, pending, event, locations, calls, hist >>

\* Lines 131-132: the block ends, the guard is dropped and ch is the copy.
RenderUnlock ==
    /\ rpc = "unlock"
    /\ mutex' = "free"
    /\ rpc' = "draw"
    /\ reported' = [c \in Chans |->
                      IF ch[c].src /\ reported[c] < 2 THEN reported[c] + 1 ELSE reported[c]]
    /\ ch' = [c \in Chans |-> [ch[c] EXCEPT !.src = FALSE]]
    /\ seenMax' = [c \in Chans |-> 0]
    /\ quiet' = TRUE
    /\ UNCHANGED << vu, audioVars, ri, win_w, win_h, pending, event, locations, calls,
                    written, prev, same, lastResize >>

\* The tracked block is finished and its peak is in no cell any more: the
\* history variables stop tracking it.
Settled == ~tracked /\ \A c \in Chans : ~vu[c].src /\ ~ch[c].src

\* The EXPOSE branch with a frame cache: a synthetic Expose that directly
\* follows a synthetic Expose with the same snapshot draws nothing.
RenderDrawCached ==
    /\ rpc = "draw"
    /\ LET x == << 0, U16AsI16(win_w) - 1 >>
           y == << 0, U16AsI16(win_h) - 1 >>
           skip == IsSynthetic(event) /\ prev = "syn" /\ same
       IN  /\ locations' = IF skip THEN << >> ELSE Locations(Val(ch), x, y)
           /\ calls' = IF skip THEN << >> ELSE DrawCalls(Val(ch), x, y)
    /\ rpc' = "wait"
    /\ IF Settled
       THEN written' = [c \in Chans |-> FALSE] /\ reported' = [c \in Chans |-> 0]
       ELSE UNCHANGED << written, reported >>
    /\ UNCHANGED << vu, mutex, audioVars, ri, ch, win_w, win_h, pending, event,
                    seenMax, quiet, prev, same, lastResize >>

\* Lines 143-202: geometry, the draw requests and the flush.
RenderDraw ==
    /\ rpc = "draw"
    /\ LET x == << 0, U16AsI16(win_w) - 1 >>
           y == << 0, U16AsI16(win_h) - 1 >>
       IN  /\ locations' = Locations(Val(ch), x, y)
           /\ calls' = DrawCalls(Val(ch), x, y)
    /\ rpc' = "wait"
    /\ IF Settled
       THEN written' = [c \in Chans |-> FALSE] /\ reported' = [c \in Chans |-> 0]
       ELSE UNCHANGED << written, reported >>
    /\ UNCHANGED << vu, mutex, audioVars, ri, ch, win_w, win_h, pending, event,
                    seenMax, quiet, prev, same, lastResize >>

\* The KEY_PRESS branch with the break of line 209 in force.
KeyPressBreaks(e) ==
    /\ WaitForEvent(e)
    /\ R(e) = KEY_PRESS
    /\ rpc' = "exit"
    /\ prev' = "none" /\ same' = FALSE
    /\ UNCHANGED << vu, mutex, audioVars, ri, ch, win_w, win_h, lastResize,
                    seenMax, written, reported, quiet >>

\* Lines 204-210: the key is printed.
KeyPress(e) ==
    /\ WaitForEvent(e)
    /\ R(e) = KEY_PRESS
    /\ rpc' = "wait"
    /\ prev' = "none" /\ same' = FALSE
    /\ UNCHANGED << vu, mutex, audioVars, ri, ch, win_w, win_h, lastResize,
                    seenMax, written, reported, quiet >>

\* The stored size with width and height exchanged.
ResizedSwapped(e) == << e.height, e.width >>

\* The size a ConfigureNotify stores (lines 215-216).
Resized(e) == << e.width, e.height >>

\* Lines 211-218.
ConfigureNotify(e) ==
    /\ WaitForEvent(e)
    /\ R(e) = CONFIGURE_NOTIFY
    /\ win_w' = Resized(e)[1]
    /\ win_h' = Resized(e)[2]
    /\ lastResize' = << e.width, e.height >>
    /\ rpc' = "wait"
    /\ prev' = "none" /\ same' = FALSE
    /\ UNCHANGED << vu, mutex, audioVars, ri, ch, seenMax, written, reported, quiet >>

\* Line 219: any other event.
OtherEvent(e) ==
    /\ WaitForEvent(e)
    /\ R(e) \notin {EXPOSE, KEY_PRESS, CONFIGURE_NOTIFY}
    /\ rpc' = "wait"
    /\ prev' = "none" /\ same' = FALSE
    /\ UNCHANGED << vu, mutex, audioVars, ri, ch, win_w, win_h, lastResize,
                    seenMax, written, reported, quiet >>

\* Line 122: wait_for_event returns None and the loop breaks.
ConnectionClosed ==
    /\ rpc = "wait"
    /\ rpc' = "exit"
    /\ UNCHANGED << vu, mutex, audioVars, ri, ch, win_w, win_h, pending, event, locations, calls, hist >>

Arrivals == XEvents \cup {SyntheticExpose}

EventLoop ==
    \/ \E e \in Arrivals : Expose(e)
    \/ \E e \in Arrivals : KeyPress(e)
    \/ \E e \in Arrivals : ConfigureNotify(e)
    \/ \E e \in Arrivals : OtherEvent(e)
    \/ RenderLock
    \/ RenderClone
    \/ RenderZero
    \/ RenderUnlock
    \/ RenderDraw
    \/ ConnectionClosed

AudioCallback == AudioStart \/ AudioLock \/ AudioChannel \/ AudioReturn

Next == AudioCallback \/ FrameClock \/ EventLoop

Spec == Init /\ [][Next]_vars

\* The program when a block may hold NaN samples, so that process can panic.
NextPanic ==
    \/ Next
    \/ AudioPanic
    \/ AudioPoisoned
    \/ AudioRestart
    \/ ProcessAbort
    \/ RenderPoisoned

SpecPanic == Started(NumChannels) /\ [][NextPanic]_vars

----------------------------------------------------------------------------
(* The frame alone: one Expose drawn for a given snapshot and window size  *)

\* Levels a snapshot is made of: 0, 0.5, the literals 0.7 and 0.9 with their
\* f32 neighbours, 0.95, 1.0 and 1.5.
GeomLevels ==
    << 0, 11744051, 15938355, 8388608, 15099494, 11744050, 16777216,
       11744052, 15099493, 25165824 >>

GeomMaxChannels == 4
GeomMaxW == 8
GeomMaxH == 12

GeomWidths == 1..GeomMaxW \cup {100, InitW}
GeomHeights == 1..GeomMaxH \cup {200, InitH}

\* The event loop has taken the snapshot ch of an Expose and is about to draw.
InitGeom ==
    /\ \E n \in 1..GeomMaxChannels, k \in 1..Len(GeomLevels) :
        /\ vu = NewVu(n)
        /\ ch = [c \in 1..n |->
                   [val |-> GeomLevels[((c + k - 2) % Len(GeomLevels)) + 1], src |-> FALSE]]
    /\ mutex = "free"
    /\ apc = "idle" /\ ai = 0
    /\ rpc = "draw" /\ ri = 0
    /\ win_w \in GeomWidths /\ win_h \in GeomHeights
    /\ pending = 0
    /\ event = [response_type |-> EXPOSE, width |-> 0, height |-> 0]
    /\ locations = << >>
    /\ calls = << >>
    /\ seenMax = [c \in 1..Len(vu) |-> 0]
    /\ tracked = FALSE
    /\ written = [c \in 1..Len(vu) |-> FALSE]
    /\ reported = [c \in 1..Len(vu) |-> 0]
    /\ quiet = TRUE
    /\ prev = "none"
    /\ same = FALSE
    /\ lastResize = << win_w, win_h >>

SpecGeom == InitGeom /\ [][RenderDraw]_vars

\* A frame has been drawn for the last event.
Drawn == rpc = "wait" /\ R(event) = EXPOSE /\ calls # << >>

\* The pixel columns the rectangles of a channel occupy, as rect draws them.
Columns(loc) ==
    LET r == rect(loc.x0, loc.x1, 0, 0)
    IN  IF r = << >> THEN {} ELSE r[1].x .. (r[1].x + r[1].width - 1)

\* The rectangles of the poly_fill_rectangle request of band i, if any.
BandItems(i) ==
    LET idx == {j \in 1..Len(calls) :
                  calls[j].op = "poly_fill_rectangle" /\ calls[j].gc = BandGc[i + 1]}
    IN  IF idx = {} THEN << >> ELSE calls[CHOOSE j \in idx : TRUE].items

\* C5: for 1 <= n <= w the channels' column ranges partition [0, w-1]: every
\* column belongs to exactly one channel, the boundaries are non-decreasing
\* in the channel index, the last x1 is w-1, and for w = 100, n = 2 the
\* channels occupy [0,49] and [50,99].
C5_SlotsPartitionWidth ==
    (Drawn /\ Len(locations) >= 1 /\ Len(locations) <= win_w) =>
        LET n == Len(locations)
        IN  /\ \A col \in 0..(win_w - 1) :
                  Cardinality({k \in 1..n : col \in Columns(locations[k])}) = 1
            /\ \A k \in 1..(n - 1) :
                  /\ locations[k].x0 <= locations[k + 1].x0
                  /\ locations[k].x1 <= locations[k + 1].x1
            /\ locations[n].x1 = win_w - 1
            /\ (win_w = 100 /\ n = 2) =>
                  /\ Columns(locations[1]) = 0..49
                  /\ Columns(locations[2]) = 50..99

\* C6: the ladder of every channel is [0, yp, yp, yp, h] below 0.7,
\* [0, yp, yp, y(0.7), h] from 0.7 up to but not including 0.9, and
\* [0, yp, y(0.9), y(0.7), h] from 0.9 on, with yp = interp(h, 0, level);
\* each band's request holds one rectangle per channel whose band has a
\* positive height, and none for a band of zero or negative height.
C6_LadderByThreshold ==
    Drawn =>
        LET h == win_h
            yAt(pos) == AsI16(interp_f(h, 0, pos))
        IN  /\ \A k \in 1..Len(ch) :
                  LET level == ch[k].val
                      yp == yAt(level)
                  IN  locations[k].y =
                          IF level < F0_7 THEN << 0, yp, yp, yp, h >>
                          ELSE IF level < F0_9 THEN << 0, yp, yp, yAt(F0_7), h >>
                          ELSE << 0, yp, yAt(F0_9), yAt(F0_7), h >>
            /\ \A i \in 0..3 :
                  /\ Len(BandItems(i)) =
                        Cardinality({k \in 1..Len(ch) :
                                        locations[k].y[i + 2] - locations[k].y[i + 1] > 0})
                  /\ \A j \in 1..Len(BandItems(i)) : BandItems(i)[j].height >= 1

\* A frame with a channel at exactly 0.7, a channel at 0.9 or above showing
\* all three meter bands, and a channel below 0.7 whose high and med bands
\* are empty and contribute no rectangle.
C6_Witness ==
    /\ Drawn
    /\ \E k \in 1..Len(ch) : ch[k].val = F0_7 /\ locations[k].y[4] < locations[k].y[5]
    /\ \E k \in 1..Len(ch) :
          /\ ch[k].val >= F0_9
          /\ locations[k].y[2] < locations[k].y[3]
          /\ locations[k].y[3] < locations[k].y[4]
    /\ \E k \in 1..Len(ch) : ch[k].val < F0_7 /\ locations[k].y[2] = locations[k].y[4]
    /\ Len(BandItems(1)) < Len(ch)

----------------------------------------------------------------------------
(* The level handoff between the audio callback and the event loop         *)

\* The event loop holds the finished snapshot and is about to release the
\* mutex (the end of the block of lines 127-132).
SnapshotTaken == rpc = "unlock"

\* C1: the snapshot of a Redraw holds, per channel, the largest absolute
\* sample value the callback processed since the previous snapshot, and the
\* shared value of every channel is 0 once the snapshot is taken.
C1_SnapshotIsPeakSinceLast ==
    SnapshotTaken =>
        \A c \in Chans : ch[c].val = seenMax[c] /\ vu[c].val = 0

\* A snapshot of two channels holding 0.95 (from the sample -0.95) and 0.5.
C1_Witness ==
    /\ SnapshotTaken
    /\ Len(ch) = 2
    /\ ch[1].val = 15938355 /\ ch[2].val = 8388608
    /\ seenMax = Val(ch)

\* How many of the cells being handed over (the shared cell, the snapshot
\* in progress) and of the finished snapshots carry the tracked peak of
\* channel c.
Holders(c) == (IF vu[c].src \/ ch[c].src THEN 1 ELSE 0) + reported[c]

\* C2: under every interleaving, a block peak the callback has written is
\* either still waiting in the shared vector (or in the snapshot being
\* taken) or was part of exactly one finished snapshot: never of none (lost)
\* and never of two.
C2_PeakInExactlyOneSnapshot ==
    \A c \in Chans : written[c] => Holders(c) = 1

\* The tracked block was written while synthetic ticks had piled up and has
\* been reported by one snapshot on every channel.
C2_Witness ==
    /\ rpc = "draw"
    /\ pending > 0
    /\ \A c \in Chans : written[c] /\ reported[c] = 1 /\ ~vu[c].src
    /\ Len(vu) = 2

\* C3: the callback never waits for the mutex while the event loop holds it.
C3_CallbackNeverWaitsForRender ==
    ~(apc = "lock" /\ mutex = "render")

\* C4: a Redraw that follows a Redraw with no callback run in between takes
\* an all-zero snapshot with one entry per channel.
C4_SecondSnapshotAllZero ==
    (SnapshotTaken /\ quiet) =>
        /\ Len(ch) = Len(written)
        /\ \A c \in Chans : ch[c].val = 0

\* The second of two directly consecutive Redraws, with no callback run in
\* between, after a first one whose snapshot was not all zero.
C4_Witness ==
    /\ SnapshotTaken
    /\ quiet
    /\ prev # "none"
    /\ ~same

\* C10: a step of the callback leaves every channel other than the one it
\* is updating unchanged and does not lower that one; a channel's value is
\* lowered only by the event loop's reset.
C10_CallbackOnlyRaises ==
    [][\A c \in Chans :
          /\ apc = "scan" => /\ vu'[c].val >= vu[c].val
                             /\ (c # ai => vu'[c] = vu[c])
          /\ vu'[c].val < vu[c].val => rpc = "zero" /\ c = ri /\ vu'[c].val = 0]_vars

\* The callback has finished a block on two channels with both values
\* raised above zero.
C10_Witness ==
    /\ apc = "ret"
    /\ Len(vu) = 2
    /\ vu[1].val = 15938355
    /\ vu[2].val = 8388608

----------------------------------------------------------------------------
(* The event loop                                                          *)

\* The last event was an Expose and its handling is finished.
ExposeHandled == rpc = "wait" /\ R(event) = EXPOSE

ResizeStep ==
    /\ rpc = "wait"
    /\ R(event') = CONFIGURE_NOTIFY
    /\ (event' # event \/ calls' # calls \/ win_w' # win_w \/ win_h' # win_h)

\* C9: a Resize stores the event's width and height, issues no draw request
\* and leaves the shared levels and their mutex alone; the stored size
\* changes in no other step; and a Redraw computes its frame from the size
\* of the most recent Resize (the initial size if there was none).
C9_ResizeOnlyStoresSize ==
    [][/\ ResizeStep =>
            /\ win_w' = event'.width /\ win_h' = event'.height
            /\ calls' = << >>
            /\ vu' = vu /\ mutex' = mutex /\ ch' = ch
            /\ rpc' = "wait"
       /\ (win_w' # win_w \/ win_h' # win_h) => ResizeStep
       /\ (rpc = "draw" /\ rpc' = "wait") =>
            calls' = DrawCalls(Val(ch), << 0, lastResize[1] - 1 >>, << 0, lastResize[2] - 1 >>)]_vars

\* A frame drawn for the size of an earlier Resize: its grid spans x from 0
\* to 99.
C9_Witness ==
    /\ ExposeHandled
    /\ win_w = 100 /\ win_h = 200
    /\ lastResize = << 100, 200 >>
    /\ \E j \in 1..Len(calls) :
          calls[j].op = "poly_segment" /\ calls[j].items[1].x2 = 99

----------------------------------------------------------------------------
(* Liveness under fair scheduling                                          *)

\* RenderDraw seen through rpc alone.  RenderDraw is the only step of Next
\* that takes rpc from "draw" to "wait" and it is enabled whenever rpc is
\* "draw", so weak fairness of this step on rpc is weak fairness of
\* RenderDraw; its enabling condition needs no frame to be computed.
RenderDrawReturns == rpc = "draw" /\ rpc' = "wait"

\* The frame clock keeps ticking; the callback, once it holds the mutex,
\* runs to its return; the event loop, once it has an Expose, runs to the
\* end of the branch, and gets the mutex if it is free again and again; the
\* event stream delivers a synthetic Expose that stays in it.  The X
\* server's own events, the arrival of audio blocks and the closing of the
\* connection are not forced to happen.
Fairness ==
    /\ WF_vars(FrameClock)
    /\ WF_vars(AudioChannel \/ AudioReturn)
    /\ WF_vars(Expose(SyntheticExpose))
    /\ SF_vars(RenderLock)
    /\ WF_vars(RenderClone \/ RenderZero \/ RenderUnlock)
    /\ WF_rpc(RenderDrawReturns)

\* The program started with one channel, scheduled fairly.
FairSpec == Started(1) /\ [][Next]_vars /\ Fairness

----------------------------------------------------------------------------
(* The extent of the critical sections                                     *)

\* C11: the callback does not hold the mutex while it scans a block for its
\* peak, and the event loop does not hold it while it waits for an event,
\* computes the geometry, issues requests or flushes.
C11_MutexHeldOnlyForUpdate ==
    /\ apc = "scan" => mutex # "audio"
    /\ rpc \in {"wait", "draw", "exit"} => mutex # "render"

----------------------------------------------------------------------------
(* The order of the requests of a frame                                    *)

\* The position of a band's graphics context in the order of line 170.
BandIndex(gc) == CHOOSE i \in 1..4 : BandGc[i] = gc

\* The channels whose band i (0..3) holds at least one row and one column.
BandChannels(i) ==
    {k \in 1..Len(locations) :
        /\ locations[k].y[i + 2] - 1 >= locations[k].y[i + 1]
        /\ locations[k].x1 >= locations[k].x0}

\* The j-th smallest element of a set of channel indices.
NthChannel(K, j) == CHOOSE k \in K : Cardinality({m \in K : m < k}) = j - 1

\* C12: the requests of a frame are the background rectangles, then the
\* high, med and low band rectangles (one request per band that has
\* rectangles, none for a band without, the rectangles of a band in channel
\* order), then the four grid requests, then one flush; no request is
\* issued before the snapshot is complete and the mutex released.
C12_BandsThenGridThenFlush ==
    /\ (mutex = "render" \/ rpc \in {"lock", "clone", "zero", "unlock", "draw"})
          => calls = << >>
    /\ ExposeHandled =>
          LET n == Len(calls)
              fills == n - 5
          IN  /\ fills >= 0
              /\ calls[n].op = "flush"
              /\ \A j \in 1..(n - 1) : calls[j].op # "flush"
              /\ << calls[n - 4].gc, calls[n - 3].gc, calls[n - 2].gc, calls[n - 1].gc >>
                    = << "gc_grid_low", "gc_grid_med1", "gc_grid_med2", "gc_grid_high" >>
              /\ \A j \in (n - 4)..(n - 1) : calls[j].op = "poly_segment"
              /\ \A j \in 1..fills :
                    /\ calls[j].op = "poly_fill_rectangle"
                    /\ calls[j].gc \in {BandGc[i] : i \in 1..4}
                    /\ j < fills => BandIndex(calls[j].gc) < BandIndex(calls[j + 1].gc)
              /\ \A i \in 0..3 :
                    LET K == BandChannels(i)
                        at == {j \in 1..fills : calls[j].gc = BandGc[i + 1]}
                    IN  /\ (K = {}) <=> (at = {})
                        /\ \A j \in at :
                              /\ Len(calls[j].items) = Cardinality(K)
                              /\ \A m \in 1..Len(calls[j].items) :
                                    LET loc == locations[NthChannel(K, m)]
                                    IN  calls[j].items[m] =
                                          [x |-> loc.x0, y |-> loc.y[i + 1],
                                           width |-> loc.x1 - loc.x0 + 1,
                                           height |-> loc.y[i + 2] - loc.y[i + 1]]

\* A frame of two channels at 0.5 and 0.95: nine requests, the high band
\* with the rectangle of the second channel only, the low band with both.
C12_Witness ==
    /\ ExposeHandled
    /\ Val(ch) = << 8388608, 15938355 >>
    /\ Len(calls) = 9
    /\ Len(calls[2].items) = 1
    /\ calls[2].items[1].x = locations[2].x0
    /\ Len(calls[4].items) = 2

----------------------------------------------------------------------------
(* The grid                                                                *)

\* The segments of the grid request drawn with graphics context gc.
GridItems(gc) ==
    LET idx == {j \in 1..Len(calls) : calls[j].op = "poly_segment" /\ calls[j].gc = gc}
    IN  IF idx = {} THEN << >> ELSE calls[CHOOSE j \in idx : TRUE].items

\* The horizontal line across the window at normalized height pos, for the
\* window height h: y = (h - 1) * (1 - pos), truncated.
GridLine(w, h, pos) ==
    LET yl == AsI16(interp_f(h - 1, 0, pos))
    IN  Segment(0, yl, w - 1, yl)

\* C14: a frame draws six grid lines, at 0.25 and 0.5 (grid-low), 0.7 and
\* 0.83 (grid-med-1), 0.9 (grid-med-2) and 0.96 (grid-high), each from x = 0
\* to x = width - 1, at y-coordinates given by the window height alone,
\* whatever the levels of the snapshot.
C14_GridFromHeightOnly ==
    Drawn =>
        /\ GridItems("gc_grid_low") =
              << GridLine(win_w, win_h, F0_25), GridLine(win_w, win_h, F0_5) >>
        /\ GridItems("gc_grid_med1") =
              << GridLine(win_w, win_h, F0_7), GridLine(win_w, win_h, F0_83) >>
        /\ GridItems("gc_grid_med2") = << GridLine(win_w, win_h, F0_9) >>
        /\ GridItems("gc_grid_high") = << GridLine(win_w, win_h, F0_96) >>
        /\ Cardinality({j \in 1..Len(calls) : calls[j].op = "poly_segment"}) = 4

\* A 100 x 200 frame of a snapshot that is not all zero: the lines are at
\* y = 149, 99, 59, 33, 19 and 7.
C14_Witness ==
    /\ Drawn
    /\ win_w = 100 /\ win_h = 200
    /\ \E k \in 1..Len(ch) : ch[k].val > 0
    /\ GridItems("gc_grid_low") = << Segment(0, 149, 99, 149), Segment(0, 99, 99, 99) >>
    /\ GridItems("gc_grid_med1") = << Segment(0, 59, 99, 59), Segment(0, 33, 99, 33) >>
    /\ GridItems("gc_grid_med2") = << Segment(0, 19, 99, 19) >>
    /\ GridItems("gc_grid_high") = << Segment(0, 7, 99, 7) >>

----------------------------------------------------------------------------
(* The frame clock thread                                                  *)

\* The frame clock sends one more Expose in this step.
FrameClockStep == pending' = pending + 1

\* C16: a step of the frame clock adds an Expose to the event stream and
\* does nothing else: it leaves the shared levels, the mutex and the stored
\* window size as they are, whoever holds the mutex at the time.
C16_FrameClockOnlyInjects ==
    [][FrameClockStep =>
          /\ vu' = vu
          /\ mutex' = mutex
          /\ win_w' = win_w /\ win_h' = win_h
          /\ ch' = ch
          /\ << apc, ai, rpc, ri, event, locations, calls >>'
                = << apc, ai, rpc, ri, event, locations, calls >>]_vars

\* The frame clock has filled the event stream while the callback holds the
\* mutex, with a level above zero in the shared vector.
C16_Witness ==
    /\ pending = MaxQueue
    /\ mutex = "audio"
    /\ \E c \in Chans : vu[c].val > 0

----------------------------------------------------------------------------
(* Consistency of a snapshot across channels                               *)

\* C17: a snapshot holds the tracked block's peak on every channel or on
\* none: never the peak of a block on one channel beside a value that
\* leaves that block out on another.
C17_SnapshotBlockConsistent ==
    SnapshotTaken =>
        ((\E c \in Chans : ch[c].src) => (\A c \in Chans : ch[c].src))

\* A snapshot of two channels that holds the tracked block on both, taken
\* while the callback is already waiting with the next block.
C17_Witness ==
    /\ SnapshotTaken
    /\ Len(ch) = 2
    /\ ch[1].src /\ ch[2].src
    /\ ch[1].val # ch[2].val
    /\ apc = "lock"

----------------------------------------------------------------------------
(* The bands of one channel                                                *)

\* The rows the rectangle of band i (0..3) of a channel occupies, as rect
\* draws it.
Rows(loc, i) ==
    LET r == rect(loc.x0, loc.x0, loc.y[i + 1], loc.y[i + 2] - 1)
    IN  IF r = << >> THEN {} ELSE r[1].y .. (r[1].y + r[1].height - 1)

\* Every level of the snapshot is within [0, 1].
LevelsNormalized == \A k \in 1..Len(ch) : ch[k].val >= 0 /\ ch[k].val <= One

\* C19: for levels within [0, 1] and a window height h >= 1, the ladder of
\* a channel is non-decreasing and its background, high, med and low
\* rectangles partition the rows 0..h-1: every row is painted by exactly
\* one band and no rectangle reaches above row 0 or below row h-1.
C19_BandsPartitionRows ==
    (Drawn /\ LevelsNormalized /\ win_h >= 1) =>
        \A k \in 1..Len(locations) :
            LET loc == locations[k]
            IN  /\ \A i \in 1..4 : loc.y[i] <= loc.y[i + 1]
                /\ \A row \in 0..(win_h - 1) :
                      Cardinality({i \in 0..3 : row \in Rows(loc, i)}) = 1
                /\ \A i \in 0..3 : Rows(loc, i) \subseteq 0..(win_h - 1)
                /\ \A i \in 0..3 : \A j \in 1..Len(BandItems(i)) :
                      /\ BandItems(i)[j].y >= 0
                      /\ BandItems(i)[j].y + BandItems(i)[j].height <= win_h

\* A 200-row frame with a channel at 0.95, whose four bands all have rows,
\* beside a channel at 0, which is background from top to bottom.
C19_Witness ==
    /\ Drawn
    /\ win_h = 200
    /\ \E k \in 1..Len(ch) :
          /\ ch[k].val = 15938355
          /\ \A i \in 0..3 : Rows(locations[k], i) # {}
    /\ \E k \in 1..Len(ch) :
          /\ ch[k].val = 0
          /\ Rows(locations[k], 0) = 0..199

----------------------------------------------------------------------------
(* Grid lines against band boundaries                                      *)

\* C20: the grid lines at 0.7 and 0.9 are drawn at the y-coordinates at
\* which the bars change colour: the line at 0.7 at the boundary between
\* the low and the med band, the line at 0.9 at the boundary between the
\* med and the high band.
C20_GridMeetsBandBoundary ==
    Drawn =>
        \A k \in 1..Len(ch) :
            /\ ch[k].val >= F0_7 =>
                  locations[k].y[4] = GridItems("gc_grid_med1")[1].y1
            /\ ch[k].val >= F0_9 =>
                  locations[k].y[3] = GridItems("gc_grid_med2")[1].y1

----------------------------------------------------------------------------
(* A callback that panics while it holds the mutex                         *)

\* C15: a panic of the callback while it holds the mutex leaves the mutex
\* poisoned for good; from then on the event loop takes no snapshot and the
\* shared vector is not touched, and the event loop's next attempt to lock
\* the mutex ends the process, after which nothing runs.
C15_PoisonedLockEndsProcess ==
    [][/\ (apc = "scan" /\ apc' = "panic") => mutex' = "poisoned"
       /\ mutex = "poisoned" =>
             /\ mutex' = "poisoned"
             /\ vu' = vu /\ ch' = ch
             /\ rpc' \notin {"clone", "zero", "unlock"}
       /\ (mutex = "poisoned" /\ rpc = "lock" /\ rpc' # rpc) => rpc' \in {"panic", "abort"}
       /\ rpc \in {"panic", "abort"} => prog' = prog]_vars

\* The callback panicked on the second channel after it had raised the
\* first; the next Expose found the mutex poisoned and the process ended
\* with that vector never drawn.
C15_Witness ==
    /\ rpc = "panic"
    /\ mutex = "poisoned"
    /\ apc = "panic"
    /\ vu[1].val > 0 /\ vu[2].val = 0
    /\ Val(ch) = << 0, 0 >>

----------------------------------------------------------------------------
(* The dispatch of the event loop                                          *)

\* wait_for_event returns an event in this step.
ReceiveStep ==
    /\ rpc = "wait"
    /\ (event' # event \/ calls' # calls \/ locations' # locations)

\* The event loop is in the EXPOSE branch.
InExpose == rpc \in {"lock", "clone", "zero", "unlock", "draw"}

----------------------------------------------------------------------------
(* Progress on the mutex                                                   *)

\* Fair scheduling with both threads getting the mutex when it is free
\* again and again.
FairSpecLocks == Started(1) /\ [][Next]_vars /\ Fairness /\ SF_vars(AudioLock)

====
